---- MODULE Spec2Model ----
(***************************************************************************)
(* SparSDR compressed-capture decoders (V1 records, V2 word stream), the   *)
(* shift-selection loop of the noise-floor fitter and the threshold        *)
(* reader, modelled from src/utilities/SparSDRUtil.py.                     *)
(*                                                                         *)
(* A 32-bit little-endian word is kept as its two 16-bit halves <<lo, hi>> *)
(* (lo = bytes 0-1, hi = bytes 2-3), so that bit 31 and the signed 16-bit  *)
(* views are computed from the halves by division and remainder.           *)
(* Reconstructed times are kept in ticks: the code multiplies the tick     *)
(* count by the positive constant ts = 16.2760417 * 2^(fft_size_log2-1),   *)
(* which preserves order and sign.                                         *)
(***************************************************************************)
EXTENDS Integers, Sequences, FiniteSets, TLC

VARIABLES
  ver,              \* which decoder runs: 1 = parsePlutoV1, 2 = parsePlutoV2
  fft_size_log2,    \* argument fft_size_log2
  pc,               \* "loop" while reading, "returned" after the break and return
  b,                \* the unit last read in full (its halves), << >> before the first
  hist,             \* V1: the records read so far (history, read by no decoder)
  shortLen,         \* length in bytes of the short read that ended the loop
  n,                \* V1: records seen
  pos,              \* file position of fhandle, in units read
  fhandle,          \* the decoder's file: "open" from open() to fhandle.close()
  first_zero, after_zero, in_FFT, in_avg, after_hdr, FFT_index,
  fft_time_offset, avg_time_offset, last_fft_time, last_avg_time,
  fixed_fft_time, fixed_avg_time,
  assigned,         \* which of fixed_fft_time / fixed_avg_time are bound
  avgList,          \* magIdxList, fixedAvgTimeList, avgMagnitudeList (zipped)
  fftList,          \* fftNoList, fftIndexList, fixedFftTimeList, realList, imagList
  \* computeShiftThresholdsPluto
  captures,         \* the calibration folder: shift -> smoothed medians of its capture
  idx,              \* the loop variable of the shift loop
  shiftValue,       \* the shift under test, and the one returned
  smooth2SidedMedian, \* of the capture under test, scaled by 8; << >> before
  opened,           \* the shifts whose capture file was opened, in order
  fitPc,            \* "loop", "returned", or "raised" (polyfit raised)
  \* computeShiftThresholdsPluto: the aggregation of one capture
  nfft,             \* argument nfft
  avgMagnitudeList, \* the magnitudes decoded from the capture
  avgMagnitudeMat,  \* the matrix built from them, a sequence of rows
  medianVals,       \* the centred medians of its columns, times 2; << >> before
  aggPc,            \* "call" before, "done" after the matrix, then "centred";
                    \* "parse" while the capture is still being decoded
  \* the end of computeShiftThresholdsPluto (after the loop)
  smooth2SidedMediandB, \* of the capture the loop was left with, per centred bin
  y1,               \* np.polyval of the fit, per centred bin
  binIdx, threshLinear, threshLinearOutliers,   \* returned with shiftValue
  \* saveConfigtoFilePluto
  rxGain,           \* argument rxGain
  conservativeShiftValue, \* argument, in units of 1/ShiftDen
  cfgFile,          \* the lines of the config file, each a pair of tokens
  \* getThresholdBinShiftFromFile
  thresholdOffsetdB,\* argument thresholdOffsetdB
  RxGain,           \* int(line1.split()[1])
  ConservativeShift,\* line 4 of the config file, in units of 1/ShiftDen
  SuggestedShift,   \* line 5 of the config file
  conserveShift,    \* argument conserveShift
  binShift,         \* the shift returned
  readBinIdx,       \* binIdx as returned by the reader
  threshVec,        \* threshVec as returned by the reader
  warnings,         \* the warnings emitted by the call
  cfgFhandle,       \* fhandle of the reader: "none", then "open" or "closed"
  cfgPc,            \* "tail", "save", "call", then "returned" or "raised"
  \* the stand-alone scripts SparSDR_V1_parser.py and SparSDR_V2_parser_N210.py
  script,           \* the script that is run
  stdin,            \* the units of its standard input
  parser,           \* the globals of SparSDR_V1_parser.py
  printed,          \* the rows printed by SparSDR_V1_parser.py
  v1_out,           \* the records written to V1_out_file
  scriptPc          \* "start", "loop", "done" or "SyntaxError"

decVars == <<ver, fft_size_log2, pc, b, hist, shortLen, n, pos, fhandle, first_zero, after_zero, in_FFT,
          in_avg, after_hdr, FFT_index, fft_time_offset, avg_time_offset,
          last_fft_time, last_avg_time, fixed_fft_time, fixed_avg_time, assigned,
          avgList, fftList>>
fitVars == <<captures, idx, shiftValue, smooth2SidedMedian, opened, fitPc>>
cfgVars == <<smooth2SidedMediandB, y1, binIdx, threshLinear, threshLinearOutliers,
            rxGain, conservativeShiftValue, cfgFile, thresholdOffsetdB, RxGain,
            ConservativeShift, SuggestedShift, conserveShift, binShift,
            readBinIdx, threshVec, warnings, cfgFhandle, cfgPc>>
aggVars == <<nfft, avgMagnitudeList, avgMagnitudeMat, medianVals, aggPc>>
scrVars == <<script, stdin, parser, printed, v1_out, scriptPc>>
vars == <<decVars, fitVars, cfgVars, aggVars, scrVars>>

----------------------------------------------------------------------------
(* Bounds of the model *)

\* most records a V1 file holds
MaxRecords == 3
\* most words a V2 file holds
MaxWords == 8

\* Largest tick count TLC's 32-bit integers hold: 2^31 - 1
MaxInt == (2^30 - 1) + 2^30

----------------------------------------------------------------------------
(* Program constants *)

max_fft_size_log2 == 10

\* one 16-bit half
Half == 2^16

\* struct "h": a 16-bit half read as a signed integer
Signed16(h) == IF h >= 32768 THEN h - Half ELSE h

\* (value >> k) for a word, 16 <= k <= 31
ShiftRight(w, k) == w[2] \div (2^(k - 16))

\* value & (2^bits - 1), bits <= 30
LowBits(w, bits) ==
  IF bits >= 16 THEN (w[2] % (2^(bits - 16))) * Half + w[1]
                ELSE w[1] % (2^bits)

IsZero(w) == w[1] = 0 /\ w[2] = 0

\* x & ((2^bits - 1) - 1) for x >= 0: the low bits of x with the LSB cleared
AndEvenMask(x, bits) == (x % (2^bits)) - (x % 2)

----------------------------------------------------------------------------
(* parsePlutoV1: one 8-byte record is <<h0, h1, h2, h3>>, four halves in   *)
(* byte order.                                                             *)

time_bits == 32 - 1 - max_fft_size_log2

\* unpack("hhI", b): imag, real, hdr
V1_imag(r) == Signed16(r[1])
V1_real(r) == Signed16(r[2])
V1_hdr(r) == <<r[3], r[4]>>
\* unpack("II", b): avg_magnitude is the first four bytes, unsigned
V1_avg_magnitude(r) == r[2] * Half + r[1]

V1_is_avg_bit30(r) == ShiftRight(V1_hdr(r), 30) % 2
V1_is_avg(r) == ShiftRight(V1_hdr(r), 31) % 2
V1_index(r) == ShiftRight(V1_hdr(r), time_bits) % (2^max_fft_size_log2)
V1_time(r) == LowBits(V1_hdr(r), time_bits)

\* the amount added to a section's offset when its raw time goes down
V1WrapHalf == 2^(time_bits - 1)
V1Wrap == 2^time_bits

\* the offsets after the n == 0 initialisation
V1InitOffsetKept(cur, time) == cur
V1InitOffsetEveryRecord(cur, time) == 0 - time
V1InitOffset(cur, time) == IF n = 0 THEN -time ELSE cur

\* a section's offset after the wrap test against the section's last raw time
WrapOffsetNever(off, time, last, wrap) == off
WrapOffset(off, time, last, wrap) == IF time < last THEN off + wrap ELSE off

\* (time & (time_mask-1)) + avg_time_offset, in ticks
V1AvgTicks(time, off) == AndEvenMask(time, time_bits) + off

\* time + fft_time_offset, in ticks
V1FftTicks(time, off) == time + off

\* the records the model feeds the V1 decoder
V1Times == {0, 1, 5, 2^time_bits - 2}
V1Indexes == {0, 1023}
V1Payloads == {<<65534, 3>>}
V1Records ==
  { <<p[1], p[2], t % Half, a * 32768 + i * 32 + (t \div Half)>> :
      p \in V1Payloads, t \in V1Times, i \in V1Indexes, a \in {0, 1} }

\* One pass of the while loop of parsePlutoV1 over a full record r
V1Record(r) ==
  /\ ver = 1 /\ pc = "loop" /\ pos < MaxRecords
  /\ LET time == V1_time(r)
         fo0  == V1InitOffset(fft_time_offset, time)
         ao0  == V1InitOffset(avg_time_offset, time)
     IN /\ b' = r
        /\ hist' = Append(hist, r)
        /\ n' = n + 1
        /\ pos' = pos + 1
        /\ IF V1_is_avg(r) = 1
           THEN LET ao == WrapOffset(ao0, time, last_avg_time, V1Wrap)
                    fixed == V1AvgTicks(time, ao)
                IN /\ avg_time_offset' = ao
                   /\ fft_time_offset' = fo0
                   /\ last_avg_time' = time
                   /\ fixed_avg_time' = fixed
                   /\ assigned' = assigned \cup {"fixed_avg_time"}
                   /\ avgList' = Append(avgList,
                        [magIdx |-> V1_index(r), fixedAvgTime |-> fixed,
                         avgMagnitude |-> V1_avg_magnitude(r)])
                   /\ UNCHANGED <<last_fft_time, fixed_fft_time, fftList>>
           ELSE LET fo == WrapOffset(fo0, time, last_fft_time, V1Wrap)
                    fixed == V1FftTicks(time, fo)
                IN /\ fft_time_offset' = fo
                   /\ avg_time_offset' = ao0
                   /\ last_fft_time' = time
                   /\ fixed_fft_time' = fixed
                   /\ assigned' = assigned \cup {"fixed_fft_time"}
                   /\ fftList' = Append(fftList,
                        [fftNo |-> time % 2, fftIndex |-> V1_index(r),
                         fixedFftTime |-> fixed,
                         real |-> V1_real(r), imag |-> V1_imag(r)])
                   /\ UNCHANGED <<last_avg_time, fixed_avg_time, avgList>>
  /\ UNCHANGED <<ver, fft_size_log2, pc, shortLen, fhandle, first_zero, after_zero,
                 in_FFT, in_avg, after_hdr, FFT_index>>
  /\ UNCHANGED <<fitVars, cfgVars, aggVars, scrVars>>

----------------------------------------------------------------------------
(* parsePlutoV2: one 4-byte word is <<lo, hi>>.                            *)

FFT_size == 2^fft_size_log2

\* unpack("hh", b): imag, real
V2_imag(w) == Signed16(w[1])
V2_real(w) == Signed16(w[2])

V2_is_hdr(w) == ShiftRight(w, 31) % 2
V2_is_avg(w) == ShiftRight(w, 30) % 2
\* value & 0x3FFFFFFF
V2_time(w) == LowBits(w, 30)
\* value & 0x3FF
V2_index11(w) == LowBits(w, 11)
V2_index(w) == LowBits(w, 10)

V2Wrap == 2^30

\* ((time & 0x3FFFFFFE) + avg_time_offset), in ticks
V2AvgTicks(time, off) == AndEvenMask(time, 30) + off

\* (time + fft_time_offset), in ticks
V2FftTicksRaw(time, off) == time
V2FftTicks(time, off) == time + off

\* avgMagnitudeList.append(index)
V2AvgMagnitude(w) == V2_index(w)

\* the decoder's local variables, as one record
V2Locals ==
  [pc |-> pc, first_zero |-> first_zero, after_zero |-> after_zero,
   in_FFT |-> in_FFT, in_avg |-> in_avg, after_hdr |-> after_hdr,
   FFT_index |-> FFT_index,
   fft_time_offset |-> fft_time_offset, avg_time_offset |-> avg_time_offset,
   last_fft_time |-> last_fft_time, last_avg_time |-> last_avg_time,
   fixed_fft_time |-> fixed_fft_time, fixed_avg_time |-> fixed_avg_time,
   assigned |-> assigned, avgList |-> avgList, fftList |-> fftList]

\* if (first_zero != 2): ... ; cont says that the pass ended in a continue
V2SyncNoReset(s, w) ==
  IF s.first_zero = 2 THEN [s |-> s, cont |-> FALSE]
  ELSE IF s.first_zero = 0
       THEN [s |-> [s EXCEPT !.first_zero = IF IsZero(w) THEN 1 ELSE 0],
             cont |-> TRUE]
  ELSE IF IsZero(w) \/ V2_is_hdr(w) = 0 THEN [s |-> s, cont |-> TRUE]
  ELSE [s |-> [s EXCEPT !.first_zero = 2, !.after_zero = TRUE,
                        !.fft_time_offset = -V2_time(w),
                        !.avg_time_offset = -V2_time(w)],
        cont |-> FALSE]
V2Sync(s, w) ==
  IF s.first_zero = 2 THEN [s |-> s, cont |-> FALSE]
  ELSE IF s.first_zero = 0
       THEN [s |-> [s EXCEPT !.first_zero = IF IsZero(w) THEN 1 ELSE 0],
             cont |-> TRUE]
  ELSE IF IsZero(w) THEN [s |-> s, cont |-> TRUE]
  ELSE IF V2_is_hdr(w) = 0
       THEN [s |-> [s EXCEPT !.first_zero = 0], cont |-> TRUE]
  ELSE [s |-> [s EXCEPT !.first_zero = 2, !.after_zero = TRUE,
                        !.fft_time_offset = -V2_time(w),
                        !.avg_time_offset = -V2_time(w)],
        cont |-> FALSE]

\* if (in_FFT and (value==0)) or (in_avg and (FFT_index==FFT_size) and (value==0))
V2EndFrame(s, w) ==
  \/ s.in_FFT /\ IsZero(w)
  \/ s.in_avg /\ s.FFT_index = FFT_size /\ IsZero(w)

\* if (after_zero): the word after a zero
V2AfterZero(s, w) ==
  IF IsZero(w) THEN [s EXCEPT !.first_zero = 1, !.after_zero = FALSE]
  ELSE IF V2_is_hdr(w) = 1
  THEN IF V2_is_avg(w) = 1
       THEN LET ao == WrapOffset(s.avg_time_offset, V2_time(w), s.last_avg_time, V2Wrap)
            IN [s EXCEPT !.avg_time_offset = ao,
                         !.last_avg_time = V2_time(w),
                         !.fixed_avg_time = V2AvgTicks(V2_time(w), ao),
                         !.assigned = @ \cup {"fixed_avg_time"},
                         !.FFT_index = 0, !.in_avg = TRUE, !.in_FFT = FALSE,
                         !.after_zero = FALSE]
       ELSE LET fo == WrapOffset(s.fft_time_offset, V2_time(w), s.last_fft_time, V2Wrap)
            IN [s EXCEPT !.fft_time_offset = fo,
                         !.last_fft_time = V2_time(w),
                         !.fixed_fft_time = V2FftTicks(V2_time(w), fo),
                         !.assigned = @ \cup {"fixed_fft_time"},
                         !.in_avg = FALSE, !.in_FFT = TRUE, !.after_hdr = TRUE,
                         !.after_zero = FALSE]
  ELSE [s EXCEPT !.FFT_index = V2_index(w), !.after_zero = FALSE]

\* else: a word that does not follow a zero
V2Payload(s, w) ==
  IF s.in_avg
  THEN IF "fixed_avg_time" \in s.assigned
       THEN [s EXCEPT !.avgList = Append(@,
                          [magIdx |-> s.FFT_index, fixedAvgTime |-> s.fixed_avg_time,
                           avgMagnitude |-> V2AvgMagnitude(w)]),
                      !.FFT_index = @ + 1]
       ELSE [s EXCEPT !.pc = "raised"]
  ELSE IF s.after_hdr
  THEN [s EXCEPT !.FFT_index = V2_index(w), !.after_hdr = FALSE]
  ELSE IF "fixed_fft_time" \in s.assigned
       THEN [s EXCEPT !.fftList = Append(@,
                          [fftNo |-> V2_time(w), fftIndex |-> s.FFT_index,
                           fixedFftTime |-> s.fixed_fft_time,
                           real |-> V2_real(w), imag |-> V2_imag(w)]),
                      !.FFT_index = @ + 1]
       ELSE [s EXCEPT !.pc = "raised"]

\* the body of the while loop of parsePlutoV2 for a full word w
V2Pass(s, w) ==
  LET r == V2Sync(s, w)
  IN IF r.cont THEN r.s
     ELSE IF V2EndFrame(r.s, w) THEN [r.s EXCEPT !.after_zero = TRUE]
     ELSE IF r.s.after_zero THEN V2AfterZero(r.s, w)
     ELSE V2Payload(r.s, w)

\* the pass takes w as a section header (the elif is_hdr branch)
V2HeaderPass(s, w) ==
  LET r == V2Sync(s, w)
  IN ~r.cont /\ ~V2EndFrame(r.s, w) /\ r.s.after_zero /\ V2_is_hdr(w) = 1

\* The pass keeps every tick count within TLC's integers: a header that
\* wraps a section is fed only while the section's offset leaves room for it.
V2Fits(s, w) ==
  V2HeaderPass(s, w) =>
       IF V2_is_avg(w) = 1
       THEN V2_time(w) < s.last_avg_time
              => s.avg_time_offset <= MaxInt - 2^30 - (2^30 - 1)
       ELSE V2_time(w) < s.last_fft_time
              => s.fft_time_offset <= MaxInt - 2^30 - (2^30 - 1)

\* the decoder's local variables before the first read
V2Start ==
  [pc |-> "loop", first_zero |-> 0, after_zero |-> FALSE,
   in_FFT |-> TRUE, in_avg |-> FALSE, after_hdr |-> FALSE, FFT_index |-> 0,
   fft_time_offset |-> 0, avg_time_offset |-> 0,
   last_fft_time |-> 0, last_avg_time |-> 0,
   fixed_fft_time |-> 0, fixed_avg_time |-> 0,
   assigned |-> {}, avgList |-> << >>, fftList |-> << >>]

\* the while loop of parsePlutoV2 over the words ws, from the locals s
RECURSIVE V2Decode(_, _)
V2Decode(s, ws) ==
  IF ws = << >> \/ s.pc # "loop" THEN s
  ELSE V2Decode(V2Pass(s, Head(ws)), Tail(ws))

\* the words the model feeds the V2 decoder
V2Times == {0, 2^30 - 1}
V2Headers ==
  { <<t % Half, 32768 + a * 16384 + (t \div Half)>> : t \in V2Times, a \in {0, 1} }
V2Payloads == {<<1024, 0>>, <<65535, 3>>}
V2Words == {<<0, 0>>} \cup V2Headers \cup V2Payloads

V2Word(w) ==
  /\ ver = 2 /\ pc = "loop" /\ pos < MaxWords
  /\ V2Fits(V2Locals, w)
  /\ LET s == V2Pass(V2Locals, w)
     IN /\ b' = w
        /\ pos' = pos + 1
        /\ pc' = s.pc
        /\ first_zero' = s.first_zero
        /\ after_zero' = s.after_zero
        /\ in_FFT' = s.in_FFT
        /\ in_avg' = s.in_avg
        /\ after_hdr' = s.after_hdr
        /\ FFT_index' = s.FFT_index
        /\ fft_time_offset' = s.fft_time_offset
        /\ avg_time_offset' = s.avg_time_offset
        /\ last_fft_time' = s.last_fft_time
        /\ last_avg_time' = s.last_avg_time
        /\ fixed_fft_time' = s.fixed_fft_time
        /\ fixed_avg_time' = s.fixed_avg_time
        /\ assigned' = s.assigned
        /\ avgList' = s.avgList
        /\ fftList' = s.fftList
  /\ UNCHANGED <<ver, fft_size_log2, hist, shortLen, n, fhandle>>
  /\ UNCHANGED <<fitVars, cfgVars, aggVars, scrVars>>

----------------------------------------------------------------------------
(* End of file: read returns fewer bytes than one unit; break, close, return *)

UnitBytes == IF ver = 1 THEN 8 ELSE 4

\* where the call goes after a read of k < UnitBytes bytes
AfterShortReadRaises(k) == IF k > 0 THEN "raised" ELSE "returned"
AfterShortRead(k) == "returned"

ShortRead(k) ==
  /\ pc = "loop"
  /\ k \in 0..(UnitBytes - 1)
  /\ pc' = AfterShortRead(k)
  /\ shortLen' = k
  /\ fhandle' = "closed"
  /\ UNCHANGED <<ver, fft_size_log2, b, hist, n, pos, first_zero, after_zero, in_FFT, in_avg,
                 after_hdr, FFT_index, fft_time_offset, avg_time_offset,
                 last_fft_time, last_avg_time, fixed_fft_time, fixed_avg_time,
                 assigned, avgList, fftList>>
  /\ UNCHANGED <<fitVars, cfgVars, aggVars, scrVars>>

----------------------------------------------------------------------------

\* the values of fft_size_log2 the decoders are called with
FftSizeLog2s == {1, 10}

\* the decoders' variables before the first read
DecStart ==
  /\ pc = "loop"
  /\ b = << >>
  /\ hist = << >>
  /\ shortLen = 0
  /\ n = 0
  /\ pos = 0
  /\ fhandle = "open"
  /\ first_zero = 0 /\ after_zero = FALSE /\ in_FFT = TRUE /\ in_avg = FALSE
  /\ after_hdr = FALSE /\ FFT_index = 0
  /\ fft_time_offset = 0 /\ avg_time_offset = 0
  /\ last_fft_time = 0 /\ last_avg_time = 0
  /\ fixed_fft_time = 0 /\ fixed_avg_time = 0
  /\ assigned = {}
  /\ avgList = << >> /\ fftList = << >>

----------------------------------------------------------------------------
(* computeShiftThresholdsPluto: the shift loop.  A capture is kept as the  *)
(* vector smooth2SidedMedian scaled by 8 (the box filter sums 8 medians    *)
(* and divides by 8), so that 10*log10 of it is                            *)
(*   nan   when the scaled value is < 0,                                   *)
(*   -inf  when it is 0,                                                   *)
(*   < 0   when it is in 1..7, and >= 0 when it is >= 8.                   *)

numShifts == 8

\* shiftValueVec = np.arange(7,-1,-1)
shiftValueVecAscending(i) == i
shiftValueVec(i) == 7 - i

\* smooth2SidedMediandB < 0, elementwise (nan < 0 and nan >= 0 are both False)
DbBelowZero(x8) == x8 >= 0 /\ x8 < 8
DbFinite(x8) == x8 > 0

\* np.sum((smooth2SidedMediandB)<0)==0
CheckPassesNever(cap) == FALSE
CheckPasses(cap) == Cardinality({i \in DOMAIN cap : DbBelowZero(cap[i])}) = 0

\* np.polyfit is handed only finite values
FitFinite(cap) == \A i \in DOMAIN cap : DbFinite(cap[i])

\* the captures the model puts in the calibration folder
SmoothCaptures == {<<8, 16>>, <<8, 4>>, <<0, 8>>, <<-1, 8>>}

FitStart ==
  /\ idx = 0 /\ shiftValue = 0 /\ smooth2SidedMedian = << >>
  /\ opened = << >> /\ fitPc = "loop"

\* for idx in range(numShifts): pass i was the last of the range
LoopEndsEarly(i) == i + 2 >= numShifts
LoopEnds(i) == i + 1 = numShifts

FitIdle == captures = << >> /\ FitStart
\* nothing read from a config file yet
CfgUnread ==
  /\ RxGain = 0 /\ ConservativeShift = 0 /\ SuggestedShift = 0
  /\ binShift = 0 /\ readBinIdx = << >> /\ threshVec = << >> /\ warnings = {}
  /\ cfgFhandle = "none"
\* nothing computed after the loop and nothing written yet
CfgUnwritten ==
  /\ binIdx = << >> /\ threshLinear = << >> /\ threshLinearOutliers = << >>
  /\ cfgFile = << >>
CfgIdle ==
  /\ smooth2SidedMediandB = << >> /\ y1 = << >>
  /\ rxGain = 0 /\ conservativeShiftValue = 0
  /\ thresholdOffsetdB = 0 /\ conserveShift = FALSE
  /\ CfgUnwritten /\ CfgUnread /\ cfgPc = "tail"

\* One pass of the for loop; the pass that leaves the loop fixes the shiftValue
\* that is returned (what follows the loop is FitTail).
\* np.polyfit on values that are not all finite either raises LinAlgError or
\* yields nan coefficients, depending on the LAPACK build: raises chooses.
FitPass(raises) ==
  /\ fitPc = "loop" /\ idx < numShifts
  /\ LET sv == shiftValueVec(idx)
         cap == captures[sv]
     IN /\ raises => ~FitFinite(cap)
        /\ shiftValue' = sv
        /\ opened' = Append(opened, sv)
        /\ smooth2SidedMedian' = cap
        /\ IF raises THEN fitPc' = "raised" /\ idx' = idx
           ELSE IF CheckPasses(cap) THEN fitPc' = "returned" /\ idx' = idx
           ELSE IF LoopEnds(idx) THEN fitPc' = "returned" /\ idx' = idx
           ELSE fitPc' = "loop" /\ idx' = idx + 1
  /\ UNCHANGED captures
  /\ UNCHANGED <<decVars, cfgVars, aggVars, scrVars>>

----------------------------------------------------------------------------
(* The end of computeShiftThresholdsPluto, saveConfigtoFilePluto and        *)
(* getThresholdBinShiftFromFile.                                           *)
(* A float is a record: a finite integer value v, or nan.  dB values and   *)
(* thresholds are integer-valued.  ConservativeShift is a float of the     *)
(* file; the model keeps it as a multiple of 1/ShiftDen.                   *)

ShiftDen == 4

Fl(v) == [nan |-> FALSE, v |-> v]
NaN == [nan |-> TRUE, v |-> 0]
FAdd(x, y) == IF x.nan \/ y.nan THEN NaN ELSE Fl(x.v + y.v)
FSub(x, y) == IF x.nan \/ y.nan THEN NaN ELSE Fl(x.v - y.v)
\* x < k for a float x: False when x is nan
FLess(x, k) == ~x.nan /\ x.v < k

\* np.fft.fftshift(x): np.roll(x, len(x)//2)
FftShiftNone(x) == x
FftShift(x) ==
  [i \in 1..Len(x) |-> x[((i - 1 - (Len(x) \div 2)) % Len(x)) + 1]]

\* np.ceil(10**(x/10)) on the dB values of the model
CeilPow10(x) ==
  IF x.nan THEN NaN
  ELSE Fl(CASE x.v = 0 -> 1 [] x.v = 3 -> 2 [] x.v = 4 -> 3 [] x.v = 10 -> 10
            [] x.v = 13 -> 20 [] x.v = 14 -> 26 [] x.v = 20 -> 100)

\* y2 = y1.copy(); y2[estimError<4] = np.nan
OutlierFit(fit, err) == IF FLess(err, 4) THEN NaN ELSE fit

\* lines 360-367: the thresholds of the capture the loop was left with
\* binIdx = np.fft.fftshift(binVec), binVec = range(nfft)
BinIdxOf(k) == FftShift([i \in 1..k |-> i - 1])

FitTail ==
  /\ cfgPc = "tail"
  /\ LET estimError == [i \in 1..nfft |-> FSub(smooth2SidedMediandB[i], y1[i])]
         y2 == [i \in 1..nfft |-> OutlierFit(y1[i], estimError[i])]
     IN /\ binIdx' = BinIdxOf(nfft)
        /\ threshLinear' = [i \in 1..nfft |-> CeilPow10(y1[i])]
        /\ threshLinearOutliers' =
             [i \in 1..nfft |-> CeilPow10(FAdd(y2[i], estimError[i]))]
  /\ cfgPc' = "save"
  /\ UNCHANGED <<smooth2SidedMediandB, y1, rxGain, conservativeShiftValue,
                 cfgFile, thresholdOffsetdB, RxGain, ConservativeShift,
                 SuggestedShift, conserveShift, binShift, readBinIdx, threshVec,
                 warnings, cfgFhandle>>
  /\ UNCHANGED <<decVars, fitVars, aggVars, scrVars>>

\* str() of an int, of a float, and a literal word: one token of a line
StrInt(k) == [form |-> "int", val |-> k]
StrFloat(x) == IF x.nan THEN [form |-> "nan", val |-> 0]
               ELSE [form |-> "float", val |-> x.v]
Word(name) == [form |-> name, val |-> 0]

\* the threshold written on a bin line
LineThresholdBaseline(thresh, outlier) == thresh
LineThreshold(thresh, outlier) == IF ~outlier.nan THEN outlier ELSE thresh

\* saveConfigtoFilePluto: five header lines, then one line per zipped triple.
\* EstPAPRdB and estBWMHz are written and never parsed.
SaveConfig ==
  /\ cfgPc = "save"
  /\ cfgFile' =
       << <<Word("RxGaindB"), StrInt(rxGain)>>,
          <<Word("EstPAPRdB"), StrFloat(Fl(0))>>,
          <<Word("estBWMHz"), StrFloat(Fl(0))>>,
          <<Word("ConservativeShift"), StrFloat(Fl(conservativeShiftValue))>>,
          <<Word("SuggestedShift"), StrInt(shiftValue)>> >>
       \o [i \in 1..Len(binIdx) |->
             <<StrInt(binIdx[i]),
               StrFloat(LineThreshold(threshLinear[i], threshLinearOutliers[i]))>>]
  /\ cfgPc' = "call"
  /\ UNCHANGED <<smooth2SidedMediandB, y1, binIdx, threshLinear,
                 threshLinearOutliers, rxGain, conservativeShiftValue,
                 thresholdOffsetdB, RxGain, ConservativeShift, SuggestedShift,
                 conserveShift, binShift, readBinIdx, threshVec, warnings,
                 cfgFhandle>>
  /\ UNCHANGED <<decVars, fitVars, aggVars, scrVars>>

\* int(token) raises ValueError unless the token is an integer literal
ParsesAsInt(tok) == tok.form = "int"
\* float(token)
ParseFloat(tok) == IF tok.form = "nan" THEN NaN ELSE Fl(tok.val)

\* np.ceil of q/ShiftDen
Ceil(q) == -((-q) \div ShiftDen)

\* if(binShift < ConservativeShift)
WarnsOverflowBelowFloor(shift, cons) == (shift + 1) * ShiftDen <= cons
WarnsOverflow(shift, cons) == shift * ShiftDen < cons

\* divDifference > 0
WarnsDynRangeNotBelow(shift, suggested) == shift - suggested >= 0
WarnsDynRange(shift, suggested) == shift - suggested > 0

\* 10**(thresholdOffsetdB/10) for the offsets of the model
OffsetsdB == {0, 10}
OffsetFactor(off) == 10^(off \div 10)

\* np.round of num/den, den > 0: half to even
RoundHalfEven(num, den) ==
  LET q == num \div den
      r == num % den
  IN IF 2 * r < den THEN q
     ELSE IF 2 * r > den THEN q + 1
     ELSE IF q % 2 = 0 THEN q ELSE q + 1

\* astype(int) of nan is not defined by the C standard numpy relies on: the
\* most negative integer on x86-64 (here the most negative of the model), 0 on
\* aarch64
NanAsInt == {0, 0 - MaxInt - 1}

\* np.round(threshVec*(10**(thresholdOffsetdB/10))/(4**divDifference)).astype(int)
RescaleOneShiftMore(x, off, d, nanInt) ==
  IF x.nan THEN nanInt ELSE RoundHalfEven(x.v * OffsetFactor(off), 4^(d + 1))
Rescale(x, off, d, nanInt) ==
  IF x.nan THEN nanInt ELSE RoundHalfEven(x.v * OffsetFactor(off), 4^d)

ConsShifts == (0 - ShiftDen - 1) .. (7 * ShiftDen + 1)

\* getThresholdBinShiftFromFile.  binShift is a numpy integer, so that
\* 4**divDifference raises ValueError for a negative divDifference.  The
\* file is opened on line 431 and closed on line 451, after the last line
\* is parsed: a ValueError of int() leaves the call before the close.
GetThresholdBinShift(nanInt) ==
  /\ cfgPc = "call"
  /\ IF \/ ~ParsesAsInt(cfgFile[1][2])
        \/ ~ParsesAsInt(cfgFile[5][2])
        \/ \E i \in 6..Len(cfgFile) : ~ParsesAsInt(cfgFile[i][1])
     THEN /\ cfgPc' = "raised"
          /\ cfgFhandle' = "open"
          /\ UNCHANGED <<RxGain, ConservativeShift, SuggestedShift, binShift,
                         readBinIdx, threshVec, warnings>>
     ELSE LET cons == cfgFile[4][2].val
              sugg == cfgFile[5][2].val
              used == IF conserveShift THEN Ceil(cons) ELSE sugg
              divDifference == used - sugg
              lines == SubSeq(cfgFile, 6, Len(cfgFile))
          IN /\ cfgFhandle' = "closed"
             /\ RxGain' = cfgFile[1][2].val
             /\ ConservativeShift' = cons
             /\ SuggestedShift' = sugg
             /\ readBinIdx' = [i \in 1..Len(lines) |-> lines[i][1].val]
             /\ binShift' = used
             /\ warnings' =
                  (IF WarnsOverflow(used, cons) THEN {"overflow"} ELSE {})
                  \cup (IF WarnsDynRange(used, sugg) THEN {"dynrange"} ELSE {})
             /\ IF divDifference < 0
                THEN cfgPc' = "raised" /\ UNCHANGED threshVec
                ELSE /\ cfgPc' = "returned"
                     /\ threshVec' =
                          [i \in 1..Len(lines) |->
                             Rescale(ParseFloat(lines[i][2]), thresholdOffsetdB,
                                     divDifference, nanInt)]
  /\ UNCHANGED <<smooth2SidedMediandB, y1, binIdx, threshLinear,
                 threshLinearOutliers, rxGain, conservativeShiftValue, cfgFile,
                 thresholdOffsetdB, conserveShift>>
  /\ UNCHANGED <<decVars, fitVars, aggVars, scrVars>>

(* computeShiftThresholdsPluto, lines 333-338: the decoder's third list is  *)
(* taken as avgMagnitudeList; magIdxList is converted and not read again.  *)

TakeCapture ==
  /\ aggPc = "parse" /\ pc = "returned"
  /\ avgMagnitudeList' = [i \in 1..Len(avgList) |-> avgList[i].avgMagnitude]
  /\ aggPc' = "call"
  /\ UNCHANGED <<nfft, avgMagnitudeMat, medianVals>>
  /\ UNCHANGED <<decVars, fitVars, cfgVars, scrVars>>

(* computeShiftThresholdsPluto, lines 340-346: the matrix of one capture   *)

\* lengthAvgMagListRound = int(np.floor(lengthAvgMagList/nfft)*nfft)
RoundedLength(len, k) == (len \div k) * k

\* avgMagnitudeMat - 1, elementwise
MinusNone(x) == x
MinusOne(x) == x - 1

\* avgMagnitudeList[:lengthAvgMagListRound].reshape((-1,nfft)) - 1
AvgMagnitudeMatrix(list, k) ==
  LET kept == SubSeq(list, 1, RoundedLength(Len(list), k))
  IN [w \in 1..(Len(kept) \div k) |->
        [j \in 1..k |-> MinusOne(kept[(w - 1) * k + j])]]

Aggregate ==
  /\ aggPc = "call"
  /\ avgMagnitudeMat' = AvgMagnitudeMatrix(avgMagnitudeList, nfft)
  /\ aggPc' = "done"
  /\ UNCHANGED <<nfft, avgMagnitudeList, medianVals>>
  /\ UNCHANGED <<decVars, fitVars, cfgVars, scrVars>>

(* lines 346-347: the medians of the columns, then the centring.  A median *)
(* of an even number of values is the mean of the two middle ones, so the  *)
(* model keeps twice the median; the median of no value is nan.            *)

\* column j of the matrix, j in 1..nfft
Column(mat, j) == [w \in 1..Len(mat) |-> mat[w][j]]

\* the k-th smallest element of col, 1 <= k <= Len(col)
KthSmallest(col, k) ==
  CHOOSE v \in {col[i] : i \in DOMAIN col} :
    /\ Cardinality({i \in DOMAIN col : col[i] < v}) < k
    /\ Cardinality({i \in DOMAIN col : col[i] <= v}) >= k

\* twice np.median(col)
Median2(col) ==
  LET m == Len(col)
  IN IF m = 0 THEN NaN
     ELSE IF m % 2 = 1 THEN Fl(2 * KthSmallest(col, (m + 1) \div 2))
     ELSE Fl(KthSmallest(col, m \div 2) + KthSmallest(col, (m \div 2) + 1))

\* np.median(avgMagnitudeMat, axis=0), times 2
ColumnMedians(mat, k) == [j \in 1..k |-> Median2(Column(mat, j))]

Centre ==
  /\ aggPc = "done"
  /\ medianVals' = FftShift(ColumnMedians(avgMagnitudeMat, nfft))
  /\ aggPc' = "centred"
  /\ UNCHANGED <<nfft, avgMagnitudeList, avgMagnitudeMat>>
  /\ UNCHANGED <<decVars, fitVars, cfgVars, scrVars>>

\* no capture is being aggregated
AggIdle ==
  /\ avgMagnitudeList = << >> /\ avgMagnitudeMat = << >> /\ medianVals = << >>
  /\ aggPc = "call"

----------------------------------------------------------------------------
(* The stand-alone scripts.                                                *)
(* SparSDR_V2_parser_N210.py does not compile: line 106, the expression    *)
(* written to V1_out_file for an average sample, has an unmatched ')'.     *)
(* Python reports the SyntaxError before the first statement of the        *)
(* script is executed, whatever conv_2_V1 is.                              *)

N210Compile ==
  /\ script = "SparSDR_V2_parser_N210" /\ scriptPc = "start"
  /\ scriptPc' = "SyntaxError"
  /\ UNCHANGED <<script, stdin, parser, printed, v1_out>>
  /\ UNCHANGED <<decVars, fitVars, cfgVars, aggVars>>

(* SparSDR_V1_parser.py: fft_size_log2 = 11, so time_bits = 20.  The times *)
(* printed are kept in ticks, before the factor 10 * 2^(fft_size_log2-1).  *)

P1_time_bits == 32 - 1 - 11

\* (hdr, imag, real) = unpack("Ihh", b); (_, avg_magnitude) = unpack("II", b)
P1_hdr(r) == <<r[1], r[2]>>
P1_imag(r) == Signed16(r[3])
P1_real(r) == Signed16(r[4])
P1_avg_magnitude(r) == r[4] * Half + r[3]

P1_is_avg(r) == ShiftRight(P1_hdr(r), 31) % 2
P1_index(r) == ShiftRight(P1_hdr(r), P1_time_bits) % (2^11)
P1_time(r) == LowBits(P1_hdr(r), P1_time_bits)

\* the globals before the loop
P1Start ==
  [n |-> 0, fft_time_offset |-> 0, avg_time_offset |-> 0,
   last_fft_time |-> 0, last_avg_time |-> 0]

\* one pass of the while loop over the next full record of stdin
V1ParserRecord ==
  /\ script = "SparSDR_V1_parser" /\ scriptPc = "loop"
  /\ parser.n < Len(stdin)
  /\ LET r == stdin[parser.n + 1]
         time == P1_time(r)
         fo0 == IF parser.n = 0 THEN -time ELSE parser.fft_time_offset
         ao0 == IF parser.n = 0 THEN -time ELSE parser.avg_time_offset
     IN IF P1_is_avg(r) = 1
        THEN LET ao == WrapOffset(ao0, time, parser.last_avg_time, 2^P1_time_bits)
             IN /\ parser' = [parser EXCEPT !.n = @ + 1, !.fft_time_offset = fo0,
                                            !.avg_time_offset = ao,
                                            !.last_avg_time = time]
                /\ printed' = Append(printed,
                     [is_avg |-> 1, n |-> parser.n + 1, index |-> P1_index(r),
                      time |-> AndEvenMask(time, P1_time_bits) + ao,
                      avg_magnitude |-> P1_avg_magnitude(r)])
        ELSE LET fo == WrapOffset(fo0, time, parser.last_fft_time, 2^P1_time_bits)
             IN /\ parser' = [parser EXCEPT !.n = @ + 1, !.fft_time_offset = fo,
                                            !.avg_time_offset = ao0,
                                            !.last_fft_time = time]
                /\ printed' = Append(printed,
                     [is_avg |-> 0, n |-> parser.n + 1, fft_no |-> time % 2,
                      index |-> P1_index(r), time |-> time + fo,
                      real |-> P1_real(r), imag |-> P1_imag(r)])
  /\ UNCHANGED <<script, stdin, v1_out, scriptPc>>
  /\ UNCHANGED <<decVars, fitVars, cfgVars, aggVars>>

\* the read that finds stdin exhausted: break
V1ParserEnd ==
  /\ script = "SparSDR_V1_parser" /\ scriptPc = "loop"
  /\ parser.n = Len(stdin)
  /\ scriptPc' = "done"
  /\ UNCHANGED <<script, stdin, parser, printed, v1_out>>
  /\ UNCHANGED <<decVars, fitVars, cfgVars, aggVars>>

\* no script is run
ScrIdle ==
  /\ script = "none" /\ stdin = << >> /\ parser = P1Start /\ printed = << >>
  /\ v1_out = << >> /\ scriptPc = "start"

----------------------------------------------------------------------------
(* Specifications *)

\* the two decoders
Init ==
  /\ ver \in {1, 2}
  /\ fft_size_log2 \in FftSizeLog2s
  /\ DecStart /\ FitIdle /\ CfgIdle
  /\ nfft = 2^fft_size_log2 /\ AggIdle /\ ScrIdle

Next ==
  \/ \E r \in V1Records : V1Record(r)
  \/ \E w \in V2Words : V2Word(w)
  \/ \E k \in 0..(UnitBytes - 1) : ShortRead(k)

Spec == Init /\ [][Next]_vars

\* the shift loop of the fitter
InitFit ==
  /\ ver = 1 /\ fft_size_log2 = 10 /\ DecStart /\ CfgIdle
  /\ captures \in [0..(numShifts - 1) -> SmoothCaptures]
  /\ FitStart
  /\ nfft = 2 /\ AggIdle /\ ScrIdle

NextFit == \E raises \in BOOLEAN : FitPass(raises)

SpecFit == InitFit /\ [][NextFit]_vars

\* the fits the model leaves the shift loop with: all values finite, or (a
\* capture with a bin that is not finite) a fit that is nan everywhere
CalFits ==
  { [smooth |-> <<Fl(3), Fl(4), Fl(13), Fl(14)>>, y1 |-> <<Fl(0), Fl(0), Fl(10), Fl(10)>>],
    [smooth |-> <<Fl(14), Fl(13), Fl(4), Fl(3)>>, y1 |-> <<Fl(10), Fl(10), Fl(0), Fl(0)>>],
    [smooth |-> <<Fl(0), Fl(10), Fl(10), Fl(0)>>, y1 |-> <<Fl(0), Fl(10), Fl(10), Fl(0)>>],
    [smooth |-> <<NaN, Fl(0), Fl(0), Fl(0)>>, y1 |-> <<NaN, NaN, NaN, NaN>>] }

\* the values of --rxgain the calibration tool is run with
RxGains == {0, 30}

\* the shift loop has been left with shiftValue; its captures are not read again
FitLeft ==
  /\ captures = << >> /\ idx = 0 /\ opened = << >> /\ fitPc = "returned"
  /\ smooth2SidedMedian = << >>
  /\ shiftValue \in 0..(numShifts - 1)

\* from the end of the shift loop to the thresholds read back from the file
InitCfg ==
  /\ ver = 1 /\ fft_size_log2 = 10 /\ DecStart /\ FitLeft
  /\ \E fit \in CalFits :
       /\ smooth2SidedMediandB = fit.smooth /\ y1 = fit.y1
       /\ nfft = Len(fit.y1)
  /\ AggIdle /\ ScrIdle
  /\ rxGain \in RxGains
  /\ conservativeShiftValue \in ConsShifts
  /\ thresholdOffsetdB \in OffsetsdB
  /\ conserveShift \in BOOLEAN
  /\ CfgUnwritten /\ CfgUnread /\ cfgPc = "tail"

NextCfg ==
  \/ FitTail
  \/ SaveConfig
  \/ \E nanInt \in NanAsInt : GetThresholdBinShift(nanInt)

SpecCfg == InitCfg /\ [][NextCfg]_vars

\* sequences over S of length at most k
SeqUpTo(S, k) == UNION {[1..m -> S] : m \in 0..k}

\* the reader on a config file that was edited by hand: a number may be
\* written as an integer or with a decimal point
MaxHandLines == 2
AsFloat(k) == [form |-> "float", val |-> k]
HandLines ==
  { <<bin, thr>> : bin \in {StrInt(0), StrInt(1), AsFloat(1)},
                   thr \in {AsFloat(3), StrFloat(NaN)} }
HandFiles ==
  { << <<Word("RxGaindB"), g>>,
       <<Word("EstPAPRdB"), AsFloat(0)>>,
       <<Word("estBWMHz"), AsFloat(0)>>,
       <<Word("ConservativeShift"), AsFloat(c)>>,
       <<Word("SuggestedShift"), sg>> >> \o lines :
      g \in {StrInt(30), AsFloat(30)}, c \in {3 * ShiftDen + 1, 5 * ShiftDen},
      sg \in {StrInt(5), AsFloat(5)}, lines \in SeqUpTo(HandLines, MaxHandLines) }

InitRead ==
  /\ ver = 1 /\ fft_size_log2 = 10 /\ DecStart /\ FitIdle
  /\ nfft = 2 /\ AggIdle /\ ScrIdle
  /\ smooth2SidedMediandB = << >> /\ y1 = << >>
  /\ binIdx = << >> /\ threshLinear = << >> /\ threshLinearOutliers = << >>
  /\ rxGain = 0 /\ conservativeShiftValue = 0
  /\ cfgFile \in HandFiles
  /\ thresholdOffsetdB \in OffsetsdB
  /\ conserveShift \in BOOLEAN
  /\ CfgUnread /\ cfgPc = "call"

NextRead == \E nanInt \in NanAsInt : GetThresholdBinShift(nanInt)

SpecRead == InitRead /\ [][NextRead]_vars

\* the aggregation of one capture
MaxMags == 6
AggNffts == {1, 2, 4}
AggMagnitudes == {0, 1, 1024}

InitAgg ==
  /\ ver = 1 /\ fft_size_log2 = 10 /\ DecStart /\ FitIdle /\ CfgIdle /\ ScrIdle
  /\ nfft \in AggNffts
  /\ avgMagnitudeList \in SeqUpTo(AggMagnitudes, MaxMags)
  /\ avgMagnitudeMat = << >> /\ medianVals = << >> /\ aggPc = "call"

NextAgg == Aggregate \/ Centre

SpecAgg == InitAgg /\ [][NextAgg]_vars

\* one pass of the shift loop on a capture file: the decoder runs to the end
\* of the file (a read of 0 bytes), then the matrix and the medians are built
InitCal ==
  /\ ver \in {1, 2} /\ fft_size_log2 = 1 /\ DecStart /\ FitIdle /\ CfgIdle
  /\ ScrIdle
  /\ nfft = 2^fft_size_log2
  /\ avgMagnitudeList = << >> /\ avgMagnitudeMat = << >> /\ medianVals = << >>
  /\ aggPc = "parse"

NextCal ==
  \/ \E r \in V1Records : V1Record(r)
  \/ \E w \in V2Words : V2Word(w)
  \/ ShortRead(0)
  \/ TakeCapture
  \/ Aggregate
  \/ Centre

SpecCal == InitCal /\ [][NextCal]_vars

\* the stand-alone scripts, each on an input of its format
MaxScriptRecords == 2
MaxScriptWords == 3

InitScripts ==
  /\ ver = 2 /\ fft_size_log2 = 10 /\ DecStart /\ FitIdle /\ CfgIdle
  /\ nfft = 2^fft_size_log2 /\ AggIdle
  /\ \/ /\ script = "SparSDR_V1_parser" /\ scriptPc = "loop"
        /\ stdin \in SeqUpTo(V1Records, MaxScriptRecords)
     \/ /\ script = "SparSDR_V2_parser_N210" /\ scriptPc = "start"
        /\ stdin \in SeqUpTo(V2Words, MaxScriptWords)
  /\ parser = P1Start /\ printed = << >> /\ v1_out = << >>

NextScripts == N210Compile \/ V1ParserRecord \/ V1ParserEnd

SpecScripts == InitScripts /\ [][NextScripts]_vars

----------------------------------------------------------------------------
(* Claims *)

Last(seq) == seq[Len(seq)]

\* the raw times of the FFT records of the V1 stream read so far, in order
V1FftRecords == SelectSeq(hist, LAMBDA r : V1_is_avg(r) = 0)
V1FftRaw(i) == V1_time(V1FftRecords[i])
\* the wraps seen in the FFT section up to its i-th record: the records whose
\* raw time is smaller than that of the FFT record before
V1FftWraps(i) == Cardinality({j \in 2..i : V1FftRaw(j) < V1FftRaw(j - 1)})

\* C1: in both decoders the reconstructed times appended to the average list
\* are non-decreasing in emission order, and so are those of the FFT list.
C1_TimesNonDecreasing ==
  /\ \A i, j \in DOMAIN avgList :
       i < j => avgList[i].fixedAvgTime <= avgList[j].fixedAvgTime
  /\ \A i, j \in DOMAIN fftList :
       i < j => fftList[i].fixedFftTime <= fftList[j].fixedFftTime

\* C1 witness: the V2 decoder has emitted average samples on both sides of a
\* wrap of the average section.
C1_Witness ==
  /\ ver = 2 /\ Len(avgList) >= 2
  /\ avgList[1].fixedAvgTime < Last(avgList).fixedAvgTime
  /\ last_avg_time = 0 /\ avg_time_offset = 1

\* C2 as stated: the tick count of a V1 FFT record is its raw time plus 2^21
\* per wrap seen so far in the FFT section.
C2_RawPlusWraps ==
  ver = 1 =>
    \A i \in DOMAIN fftList :
      fftList[i].fixedFftTime = V1FftRaw(i) + (2^21) * V1FftWraps(i)

\* C2 amended: the tick count of a V1 FFT record is its raw time minus the raw
\* time of the first record of the stream, plus 2^21 per wrap seen so far in
\* the FFT section.
C2_RawMinusFirstPlusWraps ==
  ver = 1 =>
    \A i \in DOMAIN fftList :
      fftList[i].fixedFftTime =
        V1FftRaw(i) - V1_time(hist[1]) + (2^21) * V1FftWraps(i)

\* C2 witness: FFT records with raw times 0x1FFFFE then 0x000001; the second is
\* reconstructed as 3 ticks.
C2_Witness ==
  /\ ver = 1 /\ Len(hist) = 2 /\ Len(fftList) = 2
  /\ V1FftRaw(1) = 2097150 /\ V1FftRaw(2) = 1
  /\ fftList[1].fixedFftTime = 0
  /\ fftList[2].fixedFftTime = 3

\* C3 as stated: every payload word (is_hdr = 0) that appends an average sample
\* in the V2 decoder appends bin = the current FFT_index and magnitude = the
\* full 32-bit value of the word, and increments FFT_index.
C3_AvgMagnitudeIsWord ==
  [][ (ver = 2 /\ Len(avgList') = Len(avgList) + 1 /\ V2_is_hdr(b') = 0) =>
        /\ Last(avgList').magIdx = FFT_index
        /\ Last(avgList').avgMagnitude % Half = b'[1]
        /\ Last(avgList').avgMagnitude \div Half = b'[2]
        /\ FFT_index' = FFT_index + 1 ]_vars

\* C4 as stated: every sample emitted by either decoder has a bin index in
\* 0..NFFT-1, NFFT = 2^fft_size_log2.
C4_BinsInRange ==
  /\ \A i \in DOMAIN avgList : avgList[i].magIdx \in 0..(FFT_size - 1)
  /\ \A i \in DOMAIN fftList : fftList[i].fftIndex \in 0..(FFT_size - 1)

\* C5: the V2 decoder has emitted nothing while it is not locked; it locks only
\* on a header word read directly after a zero word; a non-zero non-header word
\* read after a zero resets the search; the locking header sets both offsets to
\* minus its time and selects the section.
C5_Sync ==
  [][ (ver = 2 /\ pos' = pos + 1) =>
        /\ first_zero' # 2 => (avgList' = << >> /\ fftList' = << >>)
        /\ first_zero = 0 => first_zero' # 2
        /\ (first_zero = 1 /\ ~IsZero(b') /\ V2_is_hdr(b') = 0) => first_zero' = 0
        /\ (first_zero # 2 /\ first_zero' = 2) =>
             /\ b # << >> /\ IsZero(b) /\ V2_is_hdr(b') = 1
             /\ fft_time_offset' = -V2_time(b')
             /\ avg_time_offset' = -V2_time(b')
             /\ in_avg' = (V2_is_avg(b') = 1)
             /\ in_FFT' = (V2_is_avg(b') = 0) ]_vars

\* C5 witness: four non-zero non-header words, a zero, then the header
\* 0x80000000: locked in the FFT section with both offsets 0.
C5_Witness ==
  /\ ver = 2 /\ pos = 6 /\ b = <<0, 32768>>
  /\ first_zero = 2 /\ in_FFT /\ ~in_avg
  /\ fft_time_offset = 0 /\ avg_time_offset = 0
  /\ avgList = << >> /\ fftList = << >>

\* C6 as stated: a zero word read while the V2 decoder is locked with
\* after_zero set sends the decoder back to searching.
C6_ZeroAfterZeroUnlocks ==
  [][ (ver = 2 /\ pos' = pos + 1 /\ first_zero = 2 /\ after_zero /\ IsZero(b'))
        => first_zero' # 2 ]_vars

\* C7: when the raw time of a record (V1) or section header (V2) is smaller
\* than the last raw time of its section, the time reconstructed for it exceeds
\* every time emitted before in that section by at least one tick.
C7_WrapExceeds ==
  [][ pos' = pos + 1 =>
        /\ (ver = 1 /\ V1_is_avg(b') = 1 /\ V1_time(b') < last_avg_time) =>
             \A i \in DOMAIN avgList : fixed_avg_time' >= avgList[i].fixedAvgTime + 1
        /\ (ver = 1 /\ V1_is_avg(b') = 0 /\ V1_time(b') < last_fft_time) =>
             \A i \in DOMAIN fftList : fixed_fft_time' >= fftList[i].fixedFftTime + 1
        /\ (ver = 2 /\ V2HeaderPass(V2Locals, b') /\ V2_is_avg(b') = 1
              /\ V2_time(b') < last_avg_time) =>
             \A i \in DOMAIN avgList : fixed_avg_time' >= avgList[i].fixedAvgTime + 1
        /\ (ver = 2 /\ V2HeaderPass(V2Locals, b') /\ V2_is_avg(b') = 0
              /\ V2_time(b') < last_fft_time) =>
             \A i \in DOMAIN fftList : fixed_fft_time' >= fftList[i].fixedFftTime + 1
    ]_vars

\* C7 witness: three V1 average records, the second and the third each with a
\* raw time below the one before (two wraps of the average section).
C7_Witness ==
  /\ ver = 1 /\ Len(avgList) = 3
  /\ avg_time_offset + V1_time(hist[1]) = 2 * (2^21)
  /\ avgList[1].fixedAvgTime < avgList[2].fixedAvgTime
  /\ avgList[2].fixedAvgTime < avgList[3].fixedAvgTime

\* a capture in which no smoothed-dB bin is below 0 (the scaled smoothed value
\* is negative, giving nan, or at least 8)
NoBinBelowZero(cap) == \A i \in DOMAIN cap : cap[i] < 0 \/ cap[i] >= 8
\* a capture in which every smoothed-dB bin is >= 0
EveryBinAtLeastZero(cap) == \A i \in DOMAIN cap : cap[i] >= 8

CeilOf(q) ==
  CHOOSE m \in (0 - 3)..10 : m * ShiftDen >= q /\ (m - 1) * ShiftDen < q

\* C10: a call that returns a binShift below ceil(ConservativeShift) has emitted
\* the numeric-overflow warning.
C10_WarnsBelowCeil ==
  (cfgPc = "returned" /\ binShift < CeilOf(ConservativeShift)) =>
    "overflow" \in warnings

\* C10 witness: the suggested shift is used and lies between ConservativeShift - 1
\* and ConservativeShift, below its ceiling; the warning is emitted.
C10_Witness ==
  /\ cfgPc = "returned" /\ ~conserveShift
  /\ binShift < CeilOf(ConservativeShift)
  /\ (binShift + 1) * ShiftDen > ConservativeShift
  /\ "overflow" \in warnings

\* the threshold written on the i-th bin line: the outlier value unless it is nan
WrittenThreshold(i) ==
  IF ~threshLinearOutliers[i].nan THEN threshLinearOutliers[i] ELSE threshLinear[i]

C15_ConfigLines ==
  cfgFile # << >> =>
    /\ Len(cfgFile) = 5 + nfft
    /\ <<cfgFile[1][1].form, cfgFile[2][1].form, cfgFile[3][1].form,
         cfgFile[4][1].form, cfgFile[5][1].form>>
         = <<"RxGaindB", "EstPAPRdB", "estBWMHz", "ConservativeShift", "SuggestedShift">>
    /\ \A k \in 0..(nfft - 1) :
         Cardinality({i \in 6..Len(cfgFile) : cfgFile[i][1] = [form |-> "int", val |-> k]}) = 1
    /\ \A i \in 1..nfft :
         LET residual == FSub(smooth2SidedMediandB[i], y1[i])
         IN IF ~residual.nan /\ residual.v >= 4
            THEN /\ ~threshLinearOutliers[i].nan
                 /\ cfgFile[5 + i][2] = [form |-> "float", val |-> threshLinearOutliers[i].v]
            ELSE cfgFile[5 + i][2] = StrFloat(threshLinear[i])

\* C15 witness: residuals 3, 4, 3, 4 dB over the fit 0, 0, 10, 10 dB: the
\* lines carry the baseline 1, the outlier 3, the baseline 10, the outlier 26.
C15_Witness ==
  /\ cfgPc = "call" /\ Len(cfgFile) = 9
  /\ [i \in 1..4 |-> cfgFile[5 + i][2].val] = <<1, 3, 10, 26>>
  /\ [i \in 1..4 |-> cfgFile[5 + i][1].val] = <<2, 3, 0, 1>>
  /\ threshLinear = <<Fl(1), Fl(1), Fl(10), Fl(10)>>
  /\ threshLinearOutliers = <<NaN, Fl(3), NaN, Fl(26)>>

\* C13: a read that ends in the middle of a unit (1..7 bytes for V1, 1..3 for
\* V2) ends the call without an error; the lists returned are those decoded
\* from the complete units before it, and nothing is appended for the partial
\* unit.
C13_PartialUnitDropped ==
  [][ (pc = "loop" /\ pos' = pos /\ shortLen' >= 1) =>
        /\ pc' = "returned"
        /\ avgList' = avgList /\ fftList' = fftList ]_vars

\* C13 witness: a V1 file of two records (one FFT, one average) and 7 more
\* bytes has been read to its end: both samples are returned.
C13_Witness ==
  /\ ver = 1 /\ pc = "returned" /\ shortLen = 7 /\ pos = 2
  /\ Len(avgList) = 1 /\ Len(fftList) = 1

\* C14 as stated: a call that met a short read in the middle of a unit ends in
\* an error, unlike a call whose input ended at a unit boundary.
C14_TruncatedIsError ==
  (pc # "loop" /\ shortLen >= 1) => pc = "raised"

\* C18 as stated: every reconstructed time emitted by either decoder is >= 0.
C18_TimesNonNegative ==
  /\ \A i \in DOMAIN avgList : avgList[i].fixedAvgTime >= 0
  /\ \A i \in DOMAIN fftList : fftList[i].fixedFftTime >= 0

\* the V1 records read so far whose header has bit 31 set (bit 15 of the last
\* half), and those whose header has it clear, in arrival order
V1Bit31Set == SelectSeq(hist, LAMBDA r : r[4] >= 32768)
V1Bit31Clear == SelectSeq(hist, LAMBDA r : r[4] < 32768)

\* C19: in the V1 decoder every complete record gives exactly one sample, on
\* the average list when bit 31 of its header is set and on the FFT list
\* otherwise; each list is in arrival order, and the two lengths sum to
\* floor(input length / 8).
C19_OneSamplePerRecord ==
  ver = 1 =>
    /\ Len(avgList) + Len(fftList) = (8 * pos + shortLen) \div 8
    /\ Len(avgList) = Len(V1Bit31Set)
    /\ Len(fftList) = Len(V1Bit31Clear)
    /\ \A i \in DOMAIN avgList :
         /\ avgList[i].magIdx = (V1Bit31Set[i][4] % 32768) \div 32
         /\ avgList[i].avgMagnitude = V1Bit31Set[i][2] * 65536 + V1Bit31Set[i][1]
    /\ \A i \in DOMAIN fftList :
         /\ fftList[i].fftIndex = (V1Bit31Clear[i][4] % 32768) \div 32
         /\ fftList[i].fftNo = V1Bit31Clear[i][3] % 2
         /\ fftList[i].imag = Signed16(V1Bit31Clear[i][1])
         /\ fftList[i].real = Signed16(V1Bit31Clear[i][2])

\* C19 witness: an average record of bin 1023, an FFT record of bin 1023, an
\* average record of bin 0, then 5 more bytes.
C19_Witness ==
  /\ ver = 1 /\ pc = "returned" /\ shortLen = 5 /\ pos = 3
  /\ Len(avgList) = 2 /\ Len(fftList) = 1
  /\ hist[1][4] >= 32768 /\ hist[2][4] < 32768 /\ hist[3][4] >= 32768
  /\ avgList[1].magIdx = 1023 /\ avgList[2].magIdx = 0
  /\ fftList[1].fftIndex = 1023

\* the last FFT_size average samples are the bins 0..FFT_size-1 in order
FullWindowEmitted ==
  /\ Len(avgList) >= FFT_size
  /\ \A j \in 1..FFT_size : avgList[Len(avgList) - FFT_size + j].magIdx = j - 1

\* C20 as stated: inside an average section of the V2 decoder a word that
\* emits a sample emits the bin FFT_index and increments it; no sample is
\* emitted for a zero word, and none for a word that follows the FFT_size-th
\* payload word of the section.
C20_AvgSectionEnds ==
  [][ (ver = 2 /\ pos' = pos + 1 /\ first_zero = 2 /\ in_avg /\ ~after_zero) =>
        /\ Len(avgList') = Len(avgList) + 1 =>
             (Last(avgList').magIdx = FFT_index /\ FFT_index' = FFT_index + 1)
        /\ IsZero(b') => avgList' = avgList
        /\ (FFT_index = FFT_size /\ FullWindowEmitted) => avgList' = avgList ]_vars

\* C16: for W*nfft + r magnitudes, W >= 1 and r < nfft, the matrix has W rows
\* of nfft elements, element (w, j) is input number w*nfft + j minus 1, and
\* the last r magnitudes appear nowhere in it.
C16_MatrixOfFullWindows ==
  (aggPc = "done" /\ Len(avgMagnitudeList) >= nfft) =>
    LET W == Len(avgMagnitudeList) \div nfft
    IN /\ Len(avgMagnitudeMat) = W
       /\ \A w \in 0..(W - 1) :
            /\ Len(avgMagnitudeMat[w + 1]) = nfft
            /\ \A j \in 0..(nfft - 1) :
                 avgMagnitudeMat[w + 1][j + 1] = avgMagnitudeList[w * nfft + j + 1] - 1

\* C16 witness: five magnitudes with nfft = 2 give two rows; the fifth is dropped.
C16_Witness ==
  /\ aggPc = "done" /\ nfft = 2
  /\ avgMagnitudeList = <<1, 1024, 0, 1, 1024>>
  /\ avgMagnitudeMat = << <<0, 1023>>, <<-1, 0>> >>

\* the samples parsePlutoV2 decodes from the words given to the script
V2Decoded == V2Decode(V2Start, stdin)

\* C12 as stated: once the N210 script, with transcoding enabled, has run on a
\* V2 stream, V1_out_file holds one record for every sample of the V2
\* decoding of that stream.
C12_EverySampleTranscoded ==
  (script = "SparSDR_V2_parser_N210" /\ scriptPc # "start") =>
    Len(v1_out) = Len(V2Decoded.avgList) + Len(V2Decoded.fftList)

\* C17 as stated: for every record, the row SparSDR_V1_parser.py prints has
\* the is_avg, real, imag and average magnitude that parsePlutoV1 extracts
\* from the same record (imag bytes 0-1, real bytes 2-3, header bytes 4-7,
\* magnitude bytes 0-3).
C17_SameFields ==
  script = "SparSDR_V1_parser" =>
    \A i \in DOMAIN printed :
      LET r == stdin[i]
      IN /\ printed[i].is_avg = V1_is_avg(r)
         /\ printed[i].is_avg = 1 => printed[i].avg_magnitude = V1_avg_magnitude(r)
         /\ printed[i].is_avg = 0 =>
              (printed[i].real = V1_real(r) /\ printed[i].imag = V1_imag(r))

----------------------------------------------------------------------------
\* the last word read was taken as an FFT header, and nothing was read since
V2AfterFftHeader ==
  /\ ver = 2 /\ first_zero = 2 /\ in_FFT /\ after_hdr /\ ~after_zero
  /\ b # << >> /\ V2_is_hdr(b) = 1 /\ V2_is_avg(b) = 0

\* the decoder is inside the run of an FFT section, after its index word
V2InFftRun ==
  ver = 2 /\ first_zero = 2 /\ in_FFT /\ ~after_hdr /\ ~after_zero

----------------------------------------------------------------------------
\* C22: parsePlutoV1 splits hdr by L = fft_size_log2: the index is bits
\* 30..(31-L), the time is bits (30-L)..0, and a wrap adds 1 << (31-L) to
\* the section's offset, for every L <= 10.
C22_SplitByFftSize ==
  [][ (ver = 1 /\ pos' = pos + 1) =>
        LET L     == fft_size_log2
            hdr   == V1_hdr(b')
            indexL == ShiftRight(hdr, 31 - L) % (2^L)
            timeL == LowBits(hdr, 31 - L)
        IN IF V1_is_avg(b') = 1
           THEN /\ Last(avgList').magIdx = indexL
                /\ last_avg_time' = timeL
                /\ n > 0 => avg_time_offset' - avg_time_offset \in {0, 2^(31 - L)}
           ELSE /\ Last(fftList').fftIndex = indexL
                /\ last_fft_time' = timeL
                /\ n > 0 => fft_time_offset' - fft_time_offset \in {0, 2^(31 - L)} ]_vars

----------------------------------------------------------------------------
\* the FFT section's wrap state, and the average section's
FftPair == <<last_fft_time, fft_time_offset, fixed_fft_time>>
AvgPair == <<last_avg_time, avg_time_offset, fixed_avg_time>>

\* C23: wrap tracking is per section.  In parsePlutoV1 a record of one
\* section leaves the other section's last raw time, offset and fixed time
\* as they were (on the first record, n = 0, both offsets are initialised
\* and only the other section's last raw time is kept).  In parsePlutoV2,
\* once locked, an average header leaves the FFT section's three values as
\* they were, an FFT header leaves the average section's, and a word that
\* is no header leaves all six; the locking header, which initialises both
\* offsets, leaves the other section's last raw time as it was.
C23_SectionsIndependent ==
  [][ (pos' = pos + 1) =>
        IF ver = 1
        THEN IF V1_is_avg(b') = 1
             THEN /\ last_fft_time' = last_fft_time
                  /\ fixed_fft_time' = fixed_fft_time
                  /\ n > 0 => fft_time_offset' = fft_time_offset
                  /\ fftList' = fftList
             ELSE /\ last_avg_time' = last_avg_time
                  /\ fixed_avg_time' = fixed_avg_time
                  /\ n > 0 => avg_time_offset' = avg_time_offset
                  /\ avgList' = avgList
        ELSE IF V2HeaderPass(V2Locals, b')
             THEN IF V2_is_avg(b') = 1
                  THEN /\ last_fft_time' = last_fft_time
                       /\ fixed_fft_time' = fixed_fft_time
                       /\ first_zero = 2 => fft_time_offset' = fft_time_offset
                       /\ fftList' = fftList
                  ELSE /\ last_avg_time' = last_avg_time
                       /\ fixed_avg_time' = fixed_avg_time
                       /\ first_zero = 2 => avg_time_offset' = avg_time_offset
                       /\ avgList' = avgList
             ELSE FftPair' = FftPair /\ AvgPair' = AvgPair ]_vars

\* C23 witness: the FFT section has wrapped once, and the average record
\* read after the wrap is timed with the offset of the first record
C23_Witness ==
  /\ ver = 1 /\ pos = 3
  /\ V1_is_avg(b) = 1
  /\ fft_time_offset = avg_time_offset + V1Wrap
  /\ avg_time_offset = 0 - V1_time(hist[1])
  /\ Last(avgList).fixedAvgTime = V1AvgTicks(V1_time(b), avg_time_offset)

----------------------------------------------------------------------------
\* no capture of the folder passes the check
NoCapturePasses ==
  \A s \in 0..(numShifts - 1) : ~CheckPasses(captures[s])

----------------------------------------------------------------------------
\* C25: when no shift passes, computeShiftThresholdsPluto tells its caller
\* so explicitly: the call ends by an error, or the shiftValue it returns is
\* none of the values 0..7 that a call with a passing capture returns.
C25_NoPassIsSurfaced ==
  (NoCapturePasses /\ fitPc # "loop") =>
     \/ fitPc = "raised"
     \/ shiftValue \notin 0..(numShifts - 1)

----------------------------------------------------------------------------
\* the call of getThresholdBinShiftFromFile has ended
ReaderEnded == cfgPc \in {"returned", "raised"}

\* C26: for every used shift and suggested shift, with d = binShift -
\* SuggestedShift of either sign, getThresholdBinShiftFromFile returns, and
\* every threshold it returns is round(written * 10^(offset/10) / 4^d); for
\* d < 0 that is the written threshold scaled up by 4^(-d).
C26_RescaleEitherSign ==
  ReaderEnded =>
    /\ cfgPc = "returned"
    /\ Len(threshVec) = Len(binIdx)
    /\ \A i \in DOMAIN threshVec :
         ~WrittenThreshold(i).nan =>
           LET d   == binShift - SuggestedShift
               num == WrittenThreshold(i).v * OffsetFactor(thresholdOffsetdB)
           IN threshVec[i] = IF d >= 0 THEN RoundHalfEven(num, 4^d)
                                       ELSE num * 4^(0 - d)

\* C27: getThresholdBinShiftFromFile warns of a loss of dynamic range exactly
\* when the used shift is above the suggested shift; with conserveShift=False
\* the used shift is SuggestedShift, the warning is not emitted, the call
\* returns and every threshold that was written as a number comes back
\* multiplied by the offset factor only.
C27_DynRangeWarning ==
  ReaderEnded =>
    /\ ("dynrange" \in warnings) <=> (binShift - SuggestedShift > 0)
    /\ ~conserveShift =>
         /\ binShift = SuggestedShift
         /\ "dynrange" \notin warnings
         /\ cfgPc = "returned"
         /\ \A i \in DOMAIN threshVec :
              ~WrittenThreshold(i).nan =>
                threshVec[i] = WrittenThreshold(i).v * OffsetFactor(thresholdOffsetdB)

\* C27 witness: the conservative shift 7 is used where 5 is suggested; the
\* warning is emitted and the thresholds 1, 3, 10, 26 come back, with the
\* offset of 10 dB, divided by 16
C27_Witness ==
  /\ cfgPc = "returned" /\ conserveShift /\ thresholdOffsetdB = 10
  /\ binShift = 7 /\ SuggestedShift = 5
  /\ "dynrange" \in warnings
  /\ threshVec = <<1, 2, 6, 16>>

----------------------------------------------------------------------------
\* C28: a capture with fewer than nfft average magnitudes makes the
\* aggregation end with an error: no matrix is built from it and no medians
\* are taken of it.
C28_ShortCaptureIsError ==
  Len(avgMagnitudeList) < nfft => aggPc \notin {"done", "centred"}

\* C29: binIdx is a permutation of 0..nfft-1, binIdx[i] = (i + nfft/2) mod
\* nfft, and the centred median at position i (from which threshLinear[i]
\* and threshLinearOutliers[i] are computed) is the median of column
\* binIdx[i] of the matrix.
C29_BinIdxUndoesCentring ==
  aggPc = "centred" =>
    /\ Len(medianVals) = nfft /\ Len(BinIdxOf(nfft)) = nfft
    /\ {BinIdxOf(nfft)[i] : i \in 1..nfft} = 0..(nfft - 1)
    /\ \A i \in 0..(nfft - 1) :
         /\ BinIdxOf(nfft)[i + 1] = (i + (nfft \div 2)) % nfft
         /\ medianVals[i + 1] =
              Median2(Column(avgMagnitudeMat, BinIdxOf(nfft)[i + 1] + 1))

\* C29 witness: one window of four bins with medians 0, 0, 1023, -1 in
\* native order; centred they are 1023, -1, 0, 0, labelled 2, 3, 0, 1
C29_Witness ==
  /\ aggPc = "centred" /\ nfft = 4
  /\ avgMagnitudeList = <<1, 1, 1024, 0>>
  /\ medianVals = <<Fl(2046), Fl(-2), Fl(0), Fl(0)>>
  /\ BinIdxOf(nfft) = <<2, 3, 0, 1>>

----------------------------------------------------------------------------
\* C30: no call of parsePlutoV1, parsePlutoV2 or
\* getThresholdBinShiftFromFile returns or raises while the file it opened
\* is still open.
C30_FilesClosedOnExit ==
  /\ pc # "loop" => fhandle = "closed"
  /\ ReaderEnded => cfgFhandle = "closed"

----------------------------------------------------------------------------
\* C31: the reconstructed tick count of every average sample (the raw time
\* with its LSB cleared plus avg_time_offset, before the scaling by ts) is
\* even, in both decoders and for every stream.
C31_AvgTicksEven ==
  \A i \in DOMAIN avgList : avgList[i].fixedAvgTime % 2 = 0

----------------------------------------------------------------------------
\* C32: in parsePlutoV2 a sample is appended only after a header of its own
\* section was processed: when an average sample is appended fixed_avg_time
\* is bound and the sample carries the ticks of the last average header
\* (its raw time, LSB cleared, plus avg_time_offset); when an FFT sample is
\* appended fixed_fft_time is bound and the sample carries the ticks of the
\* last FFT header (its raw time plus fft_time_offset); no pass reads a
\* fixed time that is not bound.
C32_SampleAfterOwnHeader ==
  [][ (ver = 2 /\ pos' = pos + 1) =>
        /\ pc' # "raised"
        /\ avgList' # avgList =>
             /\ in_avg /\ "fixed_avg_time" \in assigned
             /\ Len(avgList') = Len(avgList) + 1
             /\ Last(avgList').fixedAvgTime = fixed_avg_time
             /\ fixed_avg_time = AndEvenMask(last_avg_time, 30) + avg_time_offset
        /\ fftList' # fftList =>
             /\ in_FFT /\ "fixed_fft_time" \in assigned
             /\ Len(fftList') = Len(fftList) + 1
             /\ Last(fftList').fixedFftTime = fixed_fft_time
             /\ fixed_fft_time = last_fft_time + fft_time_offset ]_vars

\* C32 witness: a stream has given two average samples and one FFT sample,
\* each after a header of its own section; the FFT sample is timed by the
\* FFT header, whose raw time differs from the average header's
C32_Witness ==
  /\ ver = 2 /\ pc = "loop"
  /\ Len(avgList) = 2 /\ Len(fftList) = 1
  /\ assigned = {"fixed_avg_time", "fixed_fft_time"}
  /\ fftList[1].fixedFftTime = last_fft_time + fft_time_offset
  /\ last_fft_time # last_avg_time

----------------------------------------------------------------------------
\* C33: in the matrix built from a decoded capture, the element of row w
\* and column j is the magnitude of an average sample whose decoded bin
\* index is j.
C33_ColumnIsBin ==
  aggPc \in {"done", "centred"} =>
    \A w \in 1..Len(avgMagnitudeMat) : \A j \in 1..nfft :
      /\ avgMagnitudeMat[w][j] = MinusOne(avgList[(w - 1) * nfft + j].avgMagnitude)
      /\ avgList[(w - 1) * nfft + j].magIdx = j - 1

----------------------------------------------------------------------------
\* the word about to be read is taken as an index word of the FFT section:
\* as the first payload after the header, or as the resync after a zero
V2TakenAsIndex(w) ==
  /\ ver = 2 /\ first_zero = 2 /\ in_FFT /\ ~IsZero(w)
  /\ \/ ~after_zero /\ after_hdr
     \/ after_zero /\ V2_is_hdr(w) = 0

\* C34: in the FFT section of parsePlutoV2, whatever non-zero word is read
\* directly after an index word is appended as an FFT sample on the bin the
\* index word gave.
C34_WordAfterIndexIsSample ==
  [][ (pos' = pos + 1 /\ V2TakenAsIndex(b')) =>
        LET s1 == V2Pass(V2Locals, b')
        IN \A w2 \in V2Words \ {<<0, 0>>} :
             LET s2 == V2Pass(s1, w2)
             IN /\ Len(s2.fftList) = Len(s1.fftList) + 1
                /\ Last(s2.fftList).fftIndex = V2_index(b') ]_vars

====
